---- MODULE Spec2Model ----
(***************************************************************************)
(* LiveUser presence hub (main.go): the Hub goroutine (Run, handleRegister, *)
(* handleUnregister, broadcastToSite), getSite, and the two goroutines of   *)
(* every Client (readPump, writePump).                                      *)
(*                                                                          *)
(* Site objects live on a heap (a *Site is an index into it, 0 is nil), so  *)
(* that two Site objects with the same ID can be told apart.  A goroutine   *)
(* is modelled by its position; a step is a piece of code that runs under   *)
(* one lock or is one channel operation.  A run-time panic of the hub       *)
(* goroutine (send on / close of a closed channel) ends the process: no     *)
(* action is enabled afterwards.                                            *)
(*                                                                          *)
(* Spec is the hub with its readers and with writers that drain their       *)
(* queues.  SpecIO adds the ways a writePump ends (write error, ping error, *)
(* closed queue); these only change wpc and connClosed, which no hub step   *)
(* reads, and drop at most the message a successful write would have taken. *)
(* SpecClose adds only the writer's end on a closed queue.  SpecGetSite     *)
(* runs getSite statement by statement under Hub.mutex.  SpecShutdown adds  *)
(* the shutdown pass of main.  SpecFair is Spec with a fair hub goroutine.  *)
(* SpecOrphan starts with a member attached to an unregistered Site whose   *)
(* other member has gone.  SpecSame is Spec without site switches.          *)
(* SpecFrames is Spec with readers that read any frame, malformed ones      *)
(* included.  SpecTeardown is SpecIO for two clients with a fair scheduler. *)
(* SpecLocks is the hub, the readers and the shutdown pass with every wait  *)
(* for a lock or a channel a position of its own, under a fair scheduler.   *)
(* SpecJS is the LiveUser instance of one page (main.js) and its event      *)
(* loop.  SpecConfig is parseJSConfig applied to one request.               *)
(***************************************************************************)
EXTENDS Integers, Sequences, FiniteSets, TLC

\* ---- bounds of the model ----
NumClients == 3   \* Client objects created by handleWebSocket
NumKeys == 2      \* distinct site IDs carried by join frames
MaxFrames == 3    \* join frames read by all readPumps together
SendCap == 2      \* capacity of Client.send (make(chan Message, 16), scaled down)
MaxFramesShutdown == 2  \* join frames read in a run that ends with the quit signal
NumClientsTeardown == 2 \* clients that connect in a run that ends with the endpoints closed
MaxFramesTeardown == 2  \* join frames read in a run that ends with the endpoints closed
MaxFramesRead == 2      \* frames of any kind read by all readPumps together
NumClientsLocks == 2    \* clients that connect in a run of SpecLocks
MaxFramesLocks == 2     \* join frames read in a run of SpecLocks
MaxSockets == 3         \* WebSocket objects a page creates
MaxTimers == 2          \* timers a page sets
MaxSiteIdLen == 1       \* characters of the siteId parameter of a request
MaxRefererLen == 5      \* characters of the Referer header of a request

AllKeys == <<"a", "b", "c", "d">>
Clients == 1..NumClients
Keys == {AllKeys[i] : i \in 1..NumKeys}
\* the keys Hub.sites can hold: getSite is also called with the empty string
SiteIDs == Keys \cup {""}
NilSite == 0
NoClient == 0

VARIABLES
    sites,      \* Hub.sites: site ID -> *Site (NilSite: no entry)
    heap,       \* every Site object ever allocated: <<[ID, Count, Connections]>>
    cSite,      \* Client.site, per client
    send,       \* buffer of Client.send, per client
    sendClosed, \* Client.send has been closed, per client
    connClosed, \* Client.conn has been closed, per client
    rpc,        \* position of readPump, per client
    rSiteID,    \* readPump's local siteID, per client
    wpc,        \* position of writePump, per client
    hub,        \* the Hub goroutine: position and locals
    frames,     \* join frames read so far
    shed,       \* history: <<client, Site>> removed by the default branch of
                \* broadcastToSite
    swFrom,     \* history: the Site a client held when its readPump took line 376,
                \* until the hub receives the register that follows
    hmutex,     \* Hub.mutex: the client whose getSite holds it (NoClient: free)
    gsite,      \* getSite's local site, per calling client
    main,       \* the main goroutine: position and locals of the shutdown pass
    enq,        \* history: the messages ever sent on Client.send, per client
    deq,        \* history: the messages writePump has received from Client.send,
                \* per client
    ignored,    \* history: the values of Client.site with which readPump has
                \* discarded a frame, and whether the client was a member of
                \* that Site then, per client
    notified,   \* history: writePump has written the close message to a
                \* connection that was open, per client
    js,         \* the browser page that runs main.js: the LiveUser instance, the
                \* WebSocket objects it has created and the timers it has set
    req         \* a request for /liveuser.js and the JSConfig parseJSConfig
                \* returns for it

vars == <<sites, heap, cSite, send, sendClosed, connClosed, rpc, rSiteID, wpc,
          hub, frames, shed, swFrom, hmutex, gsite, main, enq, deq, ignored,
          notified, js, req>>

\* ---- values ----
\* Message{Type: "update", SiteID, Count} (Timestamp is not modelled)
UpdateMessage(siteID, count) == [Type |-> "update", SiteID |-> siteID, Count |-> count]

\* &Site{ID: siteID, Count: 0, Connections: make(map[*Client]bool)}
NewSite(siteID) == [ID |-> siteID, Count |-> 0, Connections |-> {}]

\* the Hub goroutine waiting in the select of Run.  cmd is the handler that runs,
\* client its argument, site and count the handler's locals, siteID the argument
\* and bsite the local site of broadcastToSite, todo the members its range has
\* still to visit; history: from is the Site the client is switching away from,
\* full the members the running pass has found with a full queue.
HubIdle == [pc |-> "idle", cmd |-> "", client |-> NoClient, site |-> NilSite,
            count |-> 0, siteID |-> "", bsite |-> NilSite, todo |-> {},
            from |-> NilSite, full |-> {}]

Allocated == 1..Len(heap)

\* Message{Type: "shutdown", Message: ...} (lines 456-459)
ShutdownMessage == [Type |-> "shutdown", SiteID |-> "", Count |-> 0]

\* main blocked on <-quit (line 447).  sitesTodo and todo are what the two ranges
\* of the shutdown pass have still to visit, site is the Site of the inner range;
\* history: visits counts the iterations the pass has run for each client, members
\* are the clients that were in some Connections when the pass began.
MainWait == [pc |-> "wait", sitesTodo |-> {}, site |-> NilSite, todo |-> {},
             visits |-> [c \in Clients |-> 0], members |-> {}]

\* no page has loaded main.js: there is no LiveUser instance (ws and
\* reconnectTimer: 0 is null)
NoPage == [pc |-> "load", ws |-> 0, isActive |-> TRUE, reconnectTimer |-> 0,
           hidden |-> FALSE, visibility |-> FALSE, sockets |-> <<>>,
           timers |-> <<>>, disconnected |-> FALSE]

\* no request for /liveuser.js has been made
NoRequest == [pc |-> "none", siteId |-> <<>>, Referer |-> <<>>, SiteID |-> <<>>]

\* ---- Init: NewHub(), and handleWebSocket has run for every client ----
Init ==
    /\ sites = [k \in SiteIDs |-> NilSite]
    /\ heap = <<>>
    /\ cSite = [c \in Clients |-> NilSite]
    /\ send = [c \in Clients |-> <<>>]
    /\ sendClosed = [c \in Clients |-> FALSE]
    /\ connClosed = [c \in Clients |-> FALSE]
    /\ rpc = [c \in Clients |-> "read"]
    /\ rSiteID = [c \in Clients |-> ""]
    /\ wpc = [c \in Clients |-> "run"]
    /\ hub = HubIdle
    /\ frames = 0
    /\ shed = {}
    /\ swFrom = [c \in Clients |-> NilSite]
    /\ hmutex = NoClient
    /\ gsite = [c \in Clients |-> NilSite]
    /\ main = MainWait
    /\ enq = [c \in Clients |-> <<>>]
    /\ deq = [c \in Clients |-> <<>>]
    /\ ignored = [c \in Clients |-> {}]
    /\ notified = [c \in Clients |-> FALSE]
    /\ js = NoPage
    /\ req = NoRequest

\* the process is alive: no goroutine has panicked and main has not returned
Running == hub.pc # "panic" /\ main.pc \notin {"panic", "done"}

\* main holds hub.mutex.RLock() (lines 452-468): getSite and the delete of line 152
\* wait for it
HubMutexRLocked == main.pc \in {"sites", "range"}

\* main holds s.mutex.RLock() (lines 454-466): the Lock of handleRegister and
\* handleUnregister on s waits for it
SiteMutexRLocked(s) == main.pc = "range" /\ main.site = s

\* the Hub goroutine holds s.mutex.Lock() in the step it is about to take
\* (handleRegister lines 117-121, handleUnregister lines 134-158)
HubSiteLocked(s) ==
    /\ hub.pc \in {"handleRegister", "handleUnregister"}
    /\ cSite[hub.client] = s

\* the Hub goroutine holds s.mutex.RLock(): the range of broadcastToSite
\* (lines 179-189)
HubSiteRLocked(s) == hub.pc = "range" /\ hub.bsite = s

\* ---- Hub.getSite ----
\* the *Site getSite returns, and the registry and heap it leaves behind
getSiteRef(siteID) ==
    IF sites[siteID] # NilSite THEN sites[siteID] ELSE Len(heap) + 1

getSiteHeap(siteID) ==
    IF sites[siteID] # NilSite THEN heap ELSE Append(heap, NewSite(siteID))

getSiteSites(siteID) ==
    IF sites[siteID] # NilSite THEN sites
    ELSE [sites EXCEPT ![siteID] = Len(heap) + 1]

\* ---- Client.readPump ----
\* lines 379-381: site := c.hub.getSite(siteID); c.site = site; then blocks on
\* c.hub.register <- c
JoinSite(c, siteID) ==
    /\ cSite' = [cSite EXCEPT ![c] = getSiteRef(siteID)]
    /\ heap' = getSiteHeap(siteID)
    /\ sites' = getSiteSites(siteID)
    /\ rpc' = [rpc EXCEPT ![c] = "register"]
    /\ rSiteID' = [rSiteID EXCEPT ![c] = ""]

\* line 379 without the comparison: every join frame is a join of another site
sameSiteNever(s, siteID) == FALSE

\* line 379: c.site.ID != siteID is false, the client holds the Site of siteID
sameSite(s, siteID) == s.ID = siteID

\* ReadMessage returns a join frame whose trimmed siteId is siteID (lines 362-384)
ReadJoin(c, siteID) ==
    /\ Running
    /\ rpc[c] = "read"
    /\ frames < MaxFrames
    /\ cSite[c] = NilSite => ~HubMutexRLocked
    /\ frames' = frames + 1
    /\ IF cSite[c] # NilSite /\ heap[cSite[c]].ID # siteID
       THEN \* line 376: blocks on c.hub.unregister <- c
            /\ rpc' = [rpc EXCEPT ![c] = "unregister"]
            /\ rSiteID' = [rSiteID EXCEPT ![c] = siteID]
            /\ swFrom' = [swFrom EXCEPT ![c] = cSite[c]]
            /\ UNCHANGED <<cSite, heap, sites>>
       ELSE IF cSite[c] = NilSite \/ ~sameSite(heap[cSite[c]], siteID)
       THEN JoinSite(c, siteID) /\ UNCHANGED swFrom
       ELSE UNCHANGED <<cSite, heap, sites, rpc, rSiteID, swFrom>>
    /\ UNCHANGED <<js, req, notified, ignored, enq, deq, hmutex, gsite, main, send, sendClosed, connClosed, wpc, hub, shed>>

\* after the unregister of a site switch was received: lines 379-381
ReadJoinSwitch(c) ==
    /\ Running
    /\ rpc[c] = "getSite"
    /\ ~HubMutexRLocked
    /\ JoinSite(c, rSiteID[c])
    /\ UNCHANGED <<js, req, notified, ignored, enq, deq, hmutex, gsite, main, send, sendClosed, connClosed, wpc, hub, frames, shed, swFrom>>

\* ReadMessage returns an error: break, the deferred function blocks on
\* c.hub.unregister <- c (line 350)
ReadError(c) ==
    /\ Running
    /\ rpc[c] = "read"
    /\ rpc' = [rpc EXCEPT ![c] = "final"]
    /\ UNCHANGED <<js, req, notified, ignored, enq, deq, hmutex, gsite, main, sites, heap, cSite, send, sendClosed, connClosed, rSiteID, wpc,
                   hub, frames, shed, swFrom>>

\* line 351: c.conn.Close() of the deferred function
ReadClose(c) ==
    /\ Running
    /\ rpc[c] = "close"
    /\ rpc' = [rpc EXCEPT ![c] = "done"]
    /\ connClosed' = [connClosed EXCEPT ![c] = TRUE]
    /\ UNCHANGED <<js, req, notified, ignored, enq, deq, hmutex, gsite, main, sites, heap, cSite, send, sendClosed, rSiteID, wpc, hub, frames,
                   shed, swFrom>>

\* ---- Client.writePump ----
\* a receive that takes the message sent last
receiveLast(q) == q[Len(q)]

\* line 398: message, ok := <-c.send yields the message sent first
receive(q) == Head(q)

\* case message, ok := <-c.send with a message in the buffer: WriteJSON succeeds (ok),
\* or fails and the deferred c.conn.Close() runs.  A write on a closed conn fails.
WriteMessage(c, ok) ==
    /\ Running
    /\ wpc[c] = "run"
    /\ send[c] # <<>>
    /\ ok => ~connClosed[c]
    /\ send' = [send EXCEPT ![c] = Tail(@)]
    /\ deq' = [deq EXCEPT ![c] = Append(@, receive(send[c]))]
    /\ wpc' = [wpc EXCEPT ![c] = IF ok THEN "run" ELSE "done"]
    /\ connClosed' = [connClosed EXCEPT ![c] = IF ok THEN @ ELSE TRUE]
    /\ UNCHANGED <<js, req, notified, ignored, enq, hmutex, gsite, main, sites, heap, cSite, sendClosed, rpc, rSiteID, hub, frames, shed,
                   swFrom>>

\* case message, ok := <-c.send on a closed and drained channel: !ok, the close
\* message is written (which fails on a closed conn, the error is dropped),
\* return, deferred c.conn.Close()
WriteCloseMessage(c) ==
    /\ Running
    /\ wpc[c] = "run"
    /\ send[c] = <<>>
    /\ sendClosed[c]
    /\ wpc' = [wpc EXCEPT ![c] = "done"]
    /\ notified' = [notified EXCEPT ![c] = ~connClosed[c]]
    /\ connClosed' = [connClosed EXCEPT ![c] = TRUE]
    /\ UNCHANGED <<js, req, ignored, enq, deq, hmutex, gsite, main, sites, heap, cSite, send, sendClosed, rpc, rSiteID, hub, frames,
                   shed, swFrom>>

\* case <-ticker.C: the ping cannot be written: return, deferred c.conn.Close()
WritePingError(c) ==
    /\ Running
    /\ wpc[c] = "run"
    /\ wpc' = [wpc EXCEPT ![c] = "done"]
    /\ connClosed' = [connClosed EXCEPT ![c] = TRUE]
    /\ UNCHANGED <<js, req, notified, ignored, enq, deq, hmutex, gsite, main, sites, heap, cSite, send, sendClosed, rpc, rSiteID, hub, frames,
                   shed, swFrom>>

\* ---- Hub.Run ----
\* case client := <-h.register: the rendezvous with a readPump blocked on line 382
RunRegister(c) ==
    /\ Running
    /\ hub.pc = "idle"
    /\ rpc[c] = "register"
    /\ rpc' = [rpc EXCEPT ![c] = "read"]
    /\ hub' = [hub EXCEPT !.pc = "handleRegister", !.cmd = "register", !.client = c,
                          !.from = swFrom[c]]
    /\ swFrom' = [swFrom EXCEPT ![c] = NilSite]
    /\ UNCHANGED <<js, req, notified, ignored, enq, deq, hmutex, gsite, main, sites, heap, cSite, send, sendClosed, connClosed, rSiteID, wpc,
                   frames, shed>>

\* case client := <-h.unregister: the rendezvous with a readPump blocked on line 376
\* (site switch) or on line 350 (deferred function)
RunUnregister(c) ==
    /\ Running
    /\ hub.pc = "idle"
    /\ rpc[c] \in {"unregister", "final"}
    /\ rpc' = [rpc EXCEPT ![c] = IF @ = "unregister" THEN "getSite" ELSE "close"]
    /\ hub' = [hub EXCEPT !.pc = "handleUnregister", !.cmd = "unregister",
                          !.client = c,
                          !.from = IF rpc[c] = "unregister" THEN swFrom[c] ELSE NilSite]
    /\ UNCHANGED <<js, req, notified, ignored, enq, deq, hmutex, gsite, main, sites, heap, cSite, send, sendClosed, connClosed, rSiteID, wpc,
                   frames, shed, swFrom>>

\* ---- Hub.handleRegister ----
\* line 119 without the Count++ of line 120
registerSiteNoCount(s, c) == [s EXCEPT !.Connections = @ \cup {c}]

\* lines 119-120, on the Site object
registerSite(s, c) ==
    [s EXCEPT !.Connections = @ \cup {c}, !.Count = @ + 1]

\* lines 113-125 up to the call of broadcastToSite
handleRegister ==
    /\ Running
    /\ hub.pc = "handleRegister"
    /\ ~SiteMutexRLocked(cSite[hub.client])
    /\ LET c == hub.client
           site == cSite[c]
       IN IF site = NilSite
          THEN /\ hub' = HubIdle
               /\ UNCHANGED heap
          ELSE /\ heap' = [heap EXCEPT ![site] = registerSite(@, c)]
               /\ hub' = [hub EXCEPT !.pc = "broadcast", !.site = site,
                                     !.siteID = heap[site].ID,
                                     !.count = heap'[site].Count]
    /\ UNCHANGED <<js, req, notified, ignored, enq, deq, hmutex, gsite, main, sites, cSite, send, sendClosed, connClosed, rpc, rSiteID, wpc,
                   frames, shed, swFrom>>

\* ---- Hub.handleUnregister ----
\* lines 140-143 with a Count that goes down by two
decrementTwo(count) == IF count - 2 < 0 THEN 0 ELSE count - 2

\* lines 140-143
decrement(count) == IF count - 1 < 0 THEN 0 ELSE count - 1

\* lines 138-143, on the Site object
unregisterSite(s, c) ==
    [s EXCEPT !.Connections = @ \ {c}, !.Count = decrement(@)]

\* line 150: connectionsLeft == 0
nextAfterUnregister(s) == IF Cardinality(s.Connections) = 0 THEN "reclaim" ELSE "broadcast"

\* line 137 without the test: every client counts as a member
existsAlways(s, c) == TRUE

\* line 137: _, exists := site.Connections[client]
exists(s, c) == c \in s.Connections

\* lines 130-146 and 157-159: the part under site.mutex.  close(client.send) of a
\* closed channel panics, after the delete of line 138.
handleUnregister ==
    /\ Running
    /\ hub.pc = "handleUnregister"
    /\ ~SiteMutexRLocked(cSite[hub.client])
    /\ LET c == hub.client
           site == cSite[c]
       IN IF site = NilSite \/ ~exists(heap[site], c)
          THEN /\ hub' = HubIdle
               /\ UNCHANGED <<heap, sendClosed>>
          ELSE IF sendClosed[c]
          THEN /\ heap' = [heap EXCEPT ![site].Connections = @ \ {c}]
               /\ hub' = [hub EXCEPT !.pc = "panic", !.site = site]
               /\ UNCHANGED sendClosed
          ELSE /\ heap' = [heap EXCEPT ![site] = unregisterSite(@, c)]
               /\ sendClosed' = [sendClosed EXCEPT ![c] = TRUE]
               /\ hub' = [hub EXCEPT !.pc = nextAfterUnregister(heap'[site]),
                                     !.site = site,
                                     !.siteID = heap[site].ID,
                                     !.count = heap'[site].Count]
    /\ UNCHANGED <<js, req, notified, ignored, enq, deq, hmutex, gsite, main, sites, cSite, send, connClosed, rpc, rSiteID, wpc, frames, shed,
                   swFrom>>

\* lines 150-153: connectionsLeft == 0, delete(h.sites, site.ID) under h.mutex
reclaim ==
    /\ Running
    /\ hub.pc = "reclaim"
    /\ ~HubMutexRLocked
    /\ sites' = [sites EXCEPT ![hub.siteID] = NilSite]
    /\ hub' = HubIdle
    /\ UNCHANGED <<js, req, notified, ignored, enq, deq, hmutex, gsite, main, heap, cSite, send, sendClosed, connClosed, rpc, rSiteID, wpc,
                   frames, shed, swFrom>>

\* ---- Hub.broadcastToSite ----
\* a broadcast to the Site object of the running command, whatever Hub.sites holds
lookupCaller(siteID, callerSite) == callerSite

\* lines 171-173: site, exists := h.sites[siteID] (NilSite: !exists); the Site
\* object of the running command plays no part
lookup(siteID, callerSite) == sites[siteID]

\* lines 171-180: the lookup under h.mutex; the range over an empty map ends at once
broadcastToSite ==
    /\ Running
    /\ hub.pc = "broadcast"
    /\ LET site == lookup(hub.siteID, hub.site)
       IN IF site = NilSite \/ heap[site].Connections = {}
          THEN hub' = HubIdle
          ELSE hub' = [hub EXCEPT !.pc = "range", !.bsite = site,
                                  !.todo = heap[site].Connections]
    /\ UNCHANGED <<js, req, notified, ignored, enq, deq, hmutex, gsite, main, sites, heap, cSite, send, sendClosed, connClosed, rpc, rSiteID,
                   wpc, frames, shed, swFrom>>

\* case client.send <- message is possible: the buffer has room
CanSend(q) == Len(q) < SendCap

\* lines 186-187, on the Site object: the default branch removes the member
shedSite(s, c) == [s EXCEPT !.Connections = @ \ {c}]

\* lines 182-189, one iteration of the range, for member c.  A send on a closed
\* channel panics.
broadcastToClient(c) ==
    /\ Running
    /\ hub.pc = "range"
    /\ c \in hub.todo
    /\ LET rest == hub.todo \ {c}
           full == IF CanSend(send[c]) THEN hub.full ELSE hub.full \cup {c}
           next == IF rest = {} THEN HubIdle
                   ELSE [hub EXCEPT !.todo = rest, !.full = full]
       IN IF sendClosed[c]
          THEN /\ hub' = [hub EXCEPT !.pc = "panic"]
               /\ UNCHANGED <<heap, send, sendClosed, shed, enq>>
          ELSE IF CanSend(send[c])
          THEN /\ send' = [send EXCEPT
                             ![c] = Append(@, UpdateMessage(hub.siteID, hub.count))]
               /\ enq' = [enq EXCEPT
                            ![c] = Append(@, UpdateMessage(hub.siteID, hub.count))]
               /\ hub' = next
               /\ UNCHANGED <<heap, sendClosed, shed>>
          ELSE /\ heap' = [heap EXCEPT ![hub.bsite] = shedSite(@, c)]
               /\ sendClosed' = [sendClosed EXCEPT ![c] = TRUE]
               /\ shed' = shed \cup {<<c, hub.bsite>>}
               /\ hub' = next
               /\ UNCHANGED <<send, enq>>
    /\ UNCHANGED <<js, req, notified, ignored, deq, hmutex, gsite, main, sites, cSite, connClosed, rpc, rSiteID, wpc, frames, swFrom>>

\* ---- the system ----
Next ==
    \/ \E c \in Clients, k \in Keys : ReadJoin(c, k)
    \/ \E c \in Clients : ReadJoinSwitch(c)
    \/ \E c \in Clients : ReadError(c)
    \/ \E c \in Clients : ReadClose(c)
    \/ \E c \in Clients : WriteMessage(c, TRUE)
    \/ \E c \in Clients : RunRegister(c)
    \/ \E c \in Clients : RunUnregister(c)
    \/ handleRegister
    \/ handleUnregister
    \/ reclaim
    \/ broadcastToSite
    \/ \E c \in Clients : broadcastToClient(c)

Spec == Init /\ [][Next]_vars

\* the steps of the Hub goroutine
HubNext ==
    \/ \E c \in Clients : RunRegister(c)
    \/ \E c \in Clients : RunUnregister(c)
    \/ handleRegister
    \/ handleUnregister
    \/ reclaim
    \/ broadcastToSite
    \/ \E c \in Clients : broadcastToClient(c)

\* Spec with a scheduler that runs the Hub goroutine whenever it can take a step;
\* nothing is assumed of the readers and of the writers (a writer may never drain
\* its queue)
SpecFair == Spec /\ WF_vars(HubNext)

\* SpecOrphan is Spec from the state in which a client that is no longer there
\* joined site "a" and has left again: its detach has emptied and unregistered the
\* Site, while client 1 had resolved the same Site with getSite and is blocked on
\* register (readPump line 382).
InitOrphan ==
    /\ sites = [k \in SiteIDs |-> NilSite]
    /\ heap = <<NewSite(AllKeys[1])>>
    /\ cSite = [c \in Clients |-> IF c = 1 THEN 1 ELSE NilSite]
    /\ send = [c \in Clients |-> <<>>]
    /\ sendClosed = [c \in Clients |-> FALSE]
    /\ connClosed = [c \in Clients |-> FALSE]
    /\ rpc = [c \in Clients |-> IF c = 1 THEN "register" ELSE "read"]
    /\ rSiteID = [c \in Clients |-> ""]
    /\ wpc = [c \in Clients |-> "run"]
    /\ hub = HubIdle
    /\ frames = 1
    /\ shed = {}
    /\ swFrom = [c \in Clients |-> NilSite]
    /\ hmutex = NoClient
    /\ gsite = [c \in Clients |-> NilSite]
    /\ main = MainWait
    /\ enq = [c \in Clients |-> <<>>]
    /\ deq = [c \in Clients |-> <<>>]
    /\ ignored = [c \in Clients |-> {}]
    /\ notified = [c \in Clients |-> FALSE]
    /\ js = NoPage
    /\ req = NoRequest

SpecOrphan == InitOrphan /\ [][Next]_vars

\* Spec with writers that observe the close of their queue
NextClose ==
    \/ Next
    \/ \E c \in Clients : WriteCloseMessage(c)

SpecClose == Init /\ [][NextClose]_vars

\* SpecSame is Spec with clients that name one site each, in every join frame
\* they send: a frame names the site the client holds, if it holds one
ReadJoinSame(c, siteID) ==
    /\ cSite[c] # NilSite => heap[cSite[c]].ID = siteID
    /\ ReadJoin(c, siteID)

NextSame ==
    \/ \E c \in Clients, k \in Keys : ReadJoinSame(c, k)
    \/ \E c \in Clients : ReadError(c)
    \/ \E c \in Clients : ReadClose(c)
    \/ \E c \in Clients : WriteMessage(c, TRUE)
    \/ \E c \in Clients : RunRegister(c)
    \/ \E c \in Clients : RunUnregister(c)
    \/ handleRegister
    \/ handleUnregister
    \/ reclaim
    \/ broadcastToSite
    \/ \E c \in Clients : broadcastToClient(c)

SpecSame == Init /\ [][NextSame]_vars

\* ---- Client.readPump: the frames it reads (lines 362-384) ----
\* SpecFrames is Spec with readers that read any frame, in runs with at most
\* MaxFramesRead frames.  A frame is what json.Unmarshal makes of it: json is
\* FALSE when Unmarshal returns an error, Type and SiteID are the fields of the
\* Message otherwise; SiteID is a sequence of characters.
Space == " "

RawSiteIDs ==
    {<<>>, <<Space>>, <<Space, Space>>, <<Space, AllKeys[1], Space>>}
        \cup {<<k>> : k \in Keys}

Frames ==
    {[json |-> FALSE, Type |-> "", SiteID |-> <<>>]}
        \cup {[json |-> TRUE, Type |-> t, SiteID |-> id] :
                 t \in {"join", "leave"}, id \in RawSiteIDs}

\* strings.TrimSpace: the leading and the trailing white space is cut off
RECURSIVE TrimLeft(_)
TrimLeft(id) ==
    IF id # <<>> /\ Head(id) = Space THEN TrimLeft(Tail(id)) ELSE id

RECURSIVE TrimRight(_)
TrimRight(id) ==
    IF id # <<>> /\ id[Len(id)] = Space
    THEN TrimRight(SubSeq(id, 1, Len(id) - 1))
    ELSE id

TrimSpace(id) == TrimRight(TrimLeft(id))

\* the string a sequence of characters stands for: the key of Hub.sites
RECURSIVE StringOf(_)
StringOf(id) == IF id = <<>> THEN "" ELSE Head(id) \o StringOf(Tail(id))

\* line 372 without the test: every message is taken for a join
isJoinAlways(msg) == TRUE

\* line 372: msg.Type == "join" && msg.SiteID != ""
isJoin(msg) == msg.Type = "join" /\ msg.SiteID # <<>>

\* continue (line 369), or the end of the loop body with the if of line 372 not
\* taken: ReadMessage is called again
ReadIgnore(c) ==
    /\ Running
    /\ rpc[c] = "read"
    /\ frames < MaxFrames
    /\ frames' = frames + 1
    /\ ignored' = [ignored EXCEPT ![c] = @ \cup
                      {[site |-> cSite[c],
                        member |-> cSite[c] # NilSite
                                     /\ c \in heap[cSite[c]].Connections]}]
    /\ UNCHANGED <<js, req, notified, enq, deq, hmutex, gsite, main, sites, heap, cSite, send, sendClosed,
                   connClosed, rpc, rSiteID, wpc, hub, shed, swFrom>>

\* ReadMessage returns frame f: lines 367-384
ReadFrame(c, f) ==
    /\ frames < MaxFramesRead
    /\ IF ~f.json THEN ReadIgnore(c)
       ELSE IF isJoin(f) THEN ReadJoin(c, StringOf(TrimSpace(f.SiteID)))
       ELSE ReadIgnore(c)

NextFrames ==
    \/ \E c \in Clients, f \in Frames : ReadFrame(c, f)
    \/ \E c \in Clients : ReadJoinSwitch(c)
    \/ \E c \in Clients : ReadError(c)
    \/ \E c \in Clients : ReadClose(c)
    \/ \E c \in Clients : WriteMessage(c, TRUE)
    \/ \E c \in Clients : RunRegister(c)
    \/ \E c \in Clients : RunUnregister(c)
    \/ handleRegister
    \/ handleUnregister
    \/ reclaim
    \/ broadcastToSite
    \/ \E c \in Clients : broadcastToClient(c)

SpecFrames == Init /\ [][NextFrames]_vars

\* the ways a writePump ends
NextIO ==
    \/ Next
    \/ \E c \in Clients : WriteMessage(c, FALSE)
    \/ \E c \in Clients : WriteCloseMessage(c)
    \/ \E c \in Clients : WritePingError(c)

SpecIO == Init /\ [][NextIO]_vars

\* ---- the end of an endpoint: readPump and writePump return ----
\* SpecTeardown is SpecIO in runs with at most MaxFramesTeardown join frames, with
\* a scheduler that runs every goroutine that can take a step, and a network on
\* which reads and writes of an open connection may or may not fail.

\* ReadJoin within the frame budget of SpecTeardown
ReadJoinTeardown(c, siteID) == frames < MaxFramesTeardown /\ ReadJoin(c, siteID)

\* ReadMessage on a connection that writePump has closed returns an error
ReadClosedConn(c) == connClosed[c] /\ ReadError(c)

\* the ticker fires (every 54 s) and the ping is written to a closed connection
WritePingClosedConn(c) == connClosed[c] /\ WritePingError(c)

\* the steps of writePump that do not wait: it receives from c.send whenever
\* there is a message or the channel is closed, and the ping fails
WriteProceed(c) ==
    \/ WriteMessage(c, TRUE)
    \/ WriteMessage(c, FALSE)
    \/ WriteCloseMessage(c)
    \/ WritePingClosedConn(c)

\* the steps of readPump that do not wait for the peer or for the hub
ReadProceed(c) ==
    \/ ReadJoinSwitch(c)
    \/ ReadClose(c)
    \/ ReadClosedConn(c)

\* the clients that connect in a run of SpecTeardown
TeardownClients == 1..NumClientsTeardown

NextTeardown ==
    \/ \E c \in TeardownClients, k \in Keys : ReadJoinTeardown(c, k)
    \/ \E c \in TeardownClients : ReadJoinSwitch(c)
    \/ \E c \in TeardownClients : ReadError(c)
    \/ \E c \in TeardownClients : ReadClose(c)
    \/ \E c \in TeardownClients : WriteMessage(c, TRUE)
    \/ \E c \in TeardownClients : WriteMessage(c, FALSE)
    \/ \E c \in TeardownClients : WriteCloseMessage(c)
    \/ \E c \in TeardownClients : WritePingError(c)
    \/ \E c \in TeardownClients : RunRegister(c)
    \/ \E c \in TeardownClients : RunUnregister(c)
    \/ handleRegister
    \/ handleUnregister
    \/ reclaim
    \/ broadcastToSite
    \/ \E c \in TeardownClients : broadcastToClient(c)

FairTeardown ==
    /\ WF_vars(HubNext)
    /\ \A c \in TeardownClients :
           /\ WF_vars(ReadProceed(c))
           /\ WF_vars(WriteProceed(c))

SpecTeardown == Init /\ [][NextTeardown]_vars /\ FairTeardown

\* ---- main: the shutdown pass (lines 447-470) ----
\* SpecShutdown is Spec with a quit signal that may arrive at any time, in runs
\* with at most MaxFramesShutdown join frames.

\* ReadJoin within the frame budget of SpecShutdown
ReadJoinShutdown(c, siteID) == frames < MaxFramesShutdown /\ ReadJoin(c, siteID)

\* the position of main when the range over todoSites goes on: the next site, or
\* hub.mutex.RUnlock() and the return of main, which ends the process
nextSite(m, todoSites) ==
    IF todoSites = {} THEN [m EXCEPT !.pc = "done", !.sitesTodo = {}, !.todo = {}]
    ELSE [m EXCEPT !.pc = "sites", !.sitesTodo = todoSites, !.todo = {}]

\* lines 447-453: the signal arrives, hub.mutex.RLock(), the range over hub.sites
\* begins
Quit ==
    /\ Running
    /\ main.pc = "wait"
    /\ main' = nextSite([main EXCEPT
                            !.members = {c \in Clients :
                                \E o \in Allocated : c \in heap[o].Connections}],
                        {k \in Keys : sites[k] # NilSite})
    /\ UNCHANGED <<js, req, notified, ignored, enq, deq, sites, heap, cSite, send, sendClosed, connClosed, rpc, rSiteID,
                   wpc, hub, frames, shed, swFrom, hmutex, gsite>>

\* lines 453-455: the next site of the range, site.mutex.RLock(), the range over
\* site.Connections begins (and ends at once over an empty map)
ShutdownSite(k) ==
    /\ Running
    /\ main.pc = "sites"
    /\ k \in main.sitesTodo
    /\ main' = IF heap[sites[k]].Connections = {}
               THEN nextSite(main, main.sitesTodo \ {k})
               ELSE [main EXCEPT !.pc = "range", !.sitesTodo = @ \ {k},
                                 !.site = sites[k],
                                 !.todo = heap[sites[k]].Connections]
    /\ UNCHANGED <<js, req, notified, ignored, enq, deq, sites, heap, cSite, send, sendClosed, connClosed, rpc, rSiteID,
                   wpc, hub, frames, shed, swFrom, hmutex, gsite>>

\* lines 456-464, one iteration of the inner range, for member c: the select
\* with default, then client.conn.Close().  A send on a closed channel panics.
ShutdownClient(c) ==
    /\ Running
    /\ main.pc = "range"
    /\ c \in main.todo
    /\ IF sendClosed[c]
       THEN /\ main' = [main EXCEPT !.pc = "panic"]
            /\ UNCHANGED <<send, connClosed, enq>>
       ELSE /\ send' = [send EXCEPT ![c] = IF CanSend(@)
                                            THEN Append(@, ShutdownMessage) ELSE @]
            /\ enq' = [enq EXCEPT ![c] = IF CanSend(send[c])
                                          THEN Append(@, ShutdownMessage) ELSE @]
            /\ connClosed' = [connClosed EXCEPT ![c] = TRUE]
            /\ main' = IF main.todo = {c}
                       THEN nextSite([main EXCEPT !.visits[c] = @ + 1],
                                     main.sitesTodo)
                       ELSE [main EXCEPT !.todo = @ \ {c}, !.visits[c] = @ + 1]
    /\ UNCHANGED <<js, req, notified, ignored, deq, sites, heap, cSite, sendClosed, rpc, rSiteID, wpc, hub, frames,
                   shed, swFrom, hmutex, gsite>>

\* the inner range does not produce a member that the hub's broadcastToSite has
\* deleted from the map in the meantime (both hold only the RLock of the Site)
ShutdownSkip(c) ==
    /\ Running
    /\ main.pc = "range"
    /\ c \in main.todo
    /\ c \notin heap[main.site].Connections
    /\ main' = IF main.todo = {c} THEN nextSite(main, main.sitesTodo)
               ELSE [main EXCEPT !.todo = @ \ {c}]
    /\ UNCHANGED <<js, req, notified, ignored, enq, deq, sites, heap, cSite, send, sendClosed, connClosed, rpc, rSiteID,
                   wpc, hub, frames, shed, swFrom, hmutex, gsite>>

NextShutdown ==
    \/ \E c \in Clients, k \in Keys : ReadJoinShutdown(c, k)
    \/ \E c \in Clients : ReadJoinSwitch(c)
    \/ \E c \in Clients : ReadError(c)
    \/ \E c \in Clients : ReadClose(c)
    \/ \E c \in Clients : WriteMessage(c, TRUE)
    \/ \E c \in Clients : RunRegister(c)
    \/ \E c \in Clients : RunUnregister(c)
    \/ handleRegister
    \/ handleUnregister
    \/ reclaim
    \/ broadcastToSite
    \/ \E c \in Clients : broadcastToClient(c)
    \/ Quit
    \/ \E k \in Keys : ShutdownSite(k)
    \/ \E c \in Clients : ShutdownClient(c)
    \/ \E c \in Clients : ShutdownSkip(c)

SpecShutdown == Init /\ [][NextShutdown]_vars

\* ---- Hub.getSite, statement by statement ----
\* SpecGetSite is NewHub() with readPumps that have read their first join frame
\* and call getSite at the same time; Hub.mutex is a variable here, and a step is
\* one statement of getSite.

\* h.mutex.Lock() with no mutual exclusion: it never waits
mutexFreeAlways(m) == TRUE

\* h.mutex.Lock() returns when nobody holds the mutex
mutexFree(m) == m = NoClient

\* line 372-380: a first join frame (c.site == nil), readPump calls getSite(siteID)
ReadJoinCall(c, siteID) ==
    /\ rpc[c] = "read"
    /\ cSite[c] = NilSite
    /\ frames < MaxFrames
    /\ frames' = frames + 1
    /\ rpc' = [rpc EXCEPT ![c] = "Lock"]
    /\ rSiteID' = [rSiteID EXCEPT ![c] = siteID]
    /\ UNCHANGED <<js, req, notified, ignored, enq, deq, sites, heap, cSite, send, sendClosed, connClosed, wpc, hub, shed,
                   swFrom, hmutex, gsite, main>>

\* line 194: h.mutex.Lock()
getSiteLock(c) ==
    /\ rpc[c] = "Lock"
    /\ mutexFree(hmutex)
    /\ hmutex' = c
    /\ rpc' = [rpc EXCEPT ![c] = "lookup"]
    /\ UNCHANGED <<js, req, notified, ignored, enq, deq, sites, heap, cSite, send, sendClosed, connClosed, rSiteID, wpc,
                   hub, frames, shed, swFrom, gsite, main>>

\* lines 197-198: site, exists := h.sites[siteID]; if !exists
getSiteLookup(c) ==
    /\ rpc[c] = "lookup"
    /\ gsite' = [gsite EXCEPT ![c] = sites[rSiteID[c]]]
    /\ rpc' = [rpc EXCEPT ![c] = IF sites[rSiteID[c]] = NilSite THEN "create"
                                 ELSE "Unlock"]
    /\ UNCHANGED <<js, req, notified, ignored, enq, deq, sites, heap, cSite, send, sendClosed, connClosed, rSiteID, wpc,
                   hub, frames, shed, swFrom, hmutex, main>>

\* lines 199-204: site = &Site{...}; h.sites[siteID] = site
getSiteCreate(c) ==
    /\ rpc[c] = "create"
    /\ heap' = Append(heap, NewSite(rSiteID[c]))
    /\ gsite' = [gsite EXCEPT ![c] = Len(heap) + 1]
    /\ sites' = [sites EXCEPT ![rSiteID[c]] = Len(heap) + 1]
    /\ rpc' = [rpc EXCEPT ![c] = "Unlock"]
    /\ UNCHANGED <<js, req, notified, ignored, enq, deq, cSite, send, sendClosed, connClosed, rSiteID, wpc, hub, frames,
                   shed, swFrom, hmutex, main>>

\* getSite without the deferred h.mutex.Unlock() of line 195
getSiteNoUnlock(c) ==
    /\ rpc[c] = "Unlock"
    /\ cSite' = [cSite EXCEPT ![c] = gsite[c]]
    /\ rpc' = [rpc EXCEPT ![c] = "register"]
    /\ UNCHANGED <<js, req, notified, ignored, enq, deq, sites, heap, send, sendClosed, connClosed, rSiteID, wpc, hub,
                   frames, shed, swFrom, gsite, main, hmutex>>

\* lines 195 and 207: return site with the deferred h.mutex.Unlock(); line 381:
\* c.site = site; readPump then blocks on c.hub.register <- c
getSiteUnlock(c) ==
    /\ rpc[c] = "Unlock"
    /\ hmutex' = IF hmutex = c THEN NoClient ELSE hmutex
    /\ cSite' = [cSite EXCEPT ![c] = gsite[c]]
    /\ rpc' = [rpc EXCEPT ![c] = "register"]
    /\ UNCHANGED <<js, req, notified, ignored, enq, deq, sites, heap, send, sendClosed, connClosed, rSiteID, wpc, hub,
                   frames, shed, swFrom, gsite, main>>

NextGetSite ==
    \/ \E c \in Clients, k \in Keys : ReadJoinCall(c, k)
    \/ \E c \in Clients : getSiteLock(c)
    \/ \E c \in Clients : getSiteLookup(c)
    \/ \E c \in Clients : getSiteCreate(c)
    \/ \E c \in Clients : getSiteUnlock(c)

SpecGetSite == Init /\ [][NextGetSite]_vars

\* ---- locks and channels ----
\* SpecLocks is the system with every blocking operation a position of its own:
\* a readPump calls getSite statement by statement and waits for h.mutex.Lock(),
\* the Hub goroutine waits for site.mutex.Lock(), h.mutex.Lock() and
\* h.mutex.RLock(), main waits for h.mutex.RLock() after the quit signal, and
\* readPumps wait on h.register and h.unregister.  The scheduler is fair to
\* every goroutine that can take a step; frames and the quit signal arrive or
\* do not.

\* a first join frame within the frame budget of SpecLocks (lines 372-380)
ReadJoinCallLocks(c, siteID) ==
    /\ Running
    /\ frames < MaxFramesLocks
    /\ ReadJoinCall(c, siteID)

\* a join frame read by a client that holds a Site (lines 372-377): nothing, or
\* the unregister of a site switch
ReadJoinAgain(c, siteID) ==
    /\ cSite[c] # NilSite
    /\ frames < MaxFramesLocks
    /\ ReadJoin(c, siteID)

\* line 379-380 after the unregister of a site switch was received: readPump
\* calls getSite(siteID)
ReadSwitchCall(c) ==
    /\ Running
    /\ rpc[c] = "getSite"
    /\ rpc' = [rpc EXCEPT ![c] = "Lock"]
    /\ UNCHANGED <<js, req, notified, ignored, enq, deq, sites, heap, cSite, send, sendClosed, connClosed, rSiteID, wpc,
                   hub, frames, shed, swFrom, hmutex, gsite, main>>

\* line 194: h.mutex.Lock() waits for the readers of the mutex as well
getSiteLockLocks(c) ==
    /\ Running
    /\ ~HubMutexRLocked
    /\ getSiteLock(c)

\* a call of h.mutex.Lock() is blocked behind a reader: a new h.mutex.RLock()
\* waits until that writer has held and released the mutex (sync.RWMutex)
WriterPending == HubMutexRLocked /\ \E c \in Clients : rpc[c] = "Lock"

\* line 151: h.mutex.Lock() of the hub waits for the getSite that holds the mutex
reclaimLocks == mutexFree(hmutex) /\ reclaim

\* line 171: h.mutex.RLock() of the hub waits for the getSite that holds the
\* mutex, and for one that is blocked behind main's read lock
broadcastToSiteLocks == mutexFree(hmutex) /\ ~WriterPending /\ broadcastToSite

\* line 447: the quit signal arrives, main goes on to h.mutex.RLock()
QuitSignal ==
    /\ Running
    /\ main.pc = "wait"
    /\ main' = [main EXCEPT !.pc = "RLock"]
    /\ UNCHANGED <<js, req, notified, ignored, enq, deq, sites, heap, cSite, send, sendClosed, connClosed, rpc, rSiteID,
                   wpc, hub, frames, shed, swFrom, hmutex, gsite>>

\* lines 452-453: h.mutex.RLock() waits for the getSite that holds the mutex;
\* the range over hub.sites begins
ShutdownRLock ==
    /\ Running
    /\ main.pc = "RLock"
    /\ mutexFree(hmutex)
    /\ main' = nextSite([main EXCEPT
                            !.members = {c \in Clients :
                                \E o \in Allocated : c \in heap[o].Connections}],
                        {k \in Keys : sites[k] # NilSite})
    /\ UNCHANGED <<js, req, notified, ignored, enq, deq, sites, heap, cSite, send, sendClosed, connClosed, rpc, rSiteID,
                   wpc, hub, frames, shed, swFrom, hmutex, gsite>>

LockClients == 1..NumClientsLocks

\* the steps of a readPump that is inside getSite or about to call it
getSiteNext(c) ==
    \/ ReadSwitchCall(c)
    \/ getSiteLockLocks(c)
    \/ Running /\ getSiteLookup(c)
    \/ Running /\ getSiteCreate(c)
    \/ Running /\ getSiteUnlock(c)

\* the steps of the Hub goroutine
HubNextLocks ==
    \/ \E c \in LockClients : RunRegister(c)
    \/ \E c \in LockClients : RunUnregister(c)
    \/ handleRegister
    \/ handleUnregister
    \/ reclaimLocks
    \/ broadcastToSiteLocks
    \/ \E c \in LockClients : broadcastToClient(c)

\* the steps of main once the quit signal has arrived
MainNextLocks ==
    \/ ShutdownRLock
    \/ \E k \in Keys : ShutdownSite(k)
    \/ \E c \in LockClients : ShutdownClient(c)
    \/ \E c \in LockClients : ShutdownSkip(c)

NextLocks ==
    \/ \E c \in LockClients, k \in Keys : ReadJoinCallLocks(c, k)
    \/ \E c \in LockClients, k \in Keys : ReadJoinAgain(c, k)
    \/ \E c \in LockClients : getSiteNext(c)
    \/ \E c \in LockClients : ReadError(c)
    \/ \E c \in LockClients : ReadClose(c)
    \/ \E c \in LockClients : WriteMessage(c, TRUE)
    \/ HubNextLocks
    \/ QuitSignal
    \/ MainNextLocks

\* every goroutine that is not blocked runs; no frame and no signal has to arrive
FairLocks ==
    /\ WF_vars(HubNextLocks)
    /\ WF_vars(MainNextLocks)
    /\ \A c \in LockClients : WF_vars(getSiteNext(c))

SpecLocks == Init /\ [][NextLocks]_vars /\ FairLocks

\* ---- main.js: the LiveUser instance of a page ----
\* SpecJS is one page that loads main.js.  A step is one task of the page's
\* event loop: the script itself, an event handler, a timer callback, or a call
\* of the public methods disconnect() and reconnect().  js.sockets are the
\* WebSocket objects created so far with their readyState and the join frames
\* sent on them, js.timers the timers set so far; history: js.disconnected is
\* true from a call of disconnect() to the next call of reconnect().

\* the variables of the server
serverVars == <<sites, heap, cSite, send, sendClosed, connClosed, rpc, rSiteID,
                wpc, hub, frames, shed, swFrom, hmutex, gsite, main, enq, deq,
                ignored, notified>>

\* clearTimeout(this.reconnectTimer); this.reconnectTimer = null (lines 839-842,
\* 1002-1005)
clearReconnectTimer(j) ==
    IF j.reconnectTimer # 0
    THEN [j EXCEPT !.timers[j.reconnectTimer] = "cleared", !.reconnectTimer = 0]
    ELSE j

\* scheduleReconnect() (lines 971-983): setTimeout unless a timer is set or the
\* instance is not active
scheduleReconnect(j) ==
    IF j.reconnectTimer # 0 \/ ~j.isActive
    THEN j
    ELSE [j EXCEPT !.timers = Append(@, "pending"),
                   !.reconnectTimer = Len(j.timers) + 1]

\* line 844: this.ws && this.ws.readyState === WebSocket.OPEN
isOpen(j) == j.ws # 0 /\ j.sockets[j.ws].readyState = "OPEN"

\* connect() (lines 838-888); throws: new WebSocket(serverUrl) throws, the catch
\* block calls scheduleReconnect()
connect(j, throws) ==
    LET k == clearReconnectTimer(j)
    IN IF isOpen(k) THEN k
       ELSE IF throws THEN scheduleReconnect(k)
       ELSE [k EXCEPT !.sockets = Append(@, [readyState |-> "CONNECTING",
                                             joins |-> 0]),
                      !.ws = Len(k.sockets) + 1]

\* WebSocket.close(): a socket that is connecting or open starts to close
closeSocket(sock) ==
    IF sock.readyState \in {"CONNECTING", "OPEN"}
    THEN [sock EXCEPT !.readyState = "CLOSING"]
    ELSE sock

\* the objects a run creates stay within the bounds
WithinBounds(j) == Len(j.sockets) <= MaxSockets /\ Len(j.timers) <= MaxTimers

\* new LiveUser() (lines 670-686): the constructor, setupEventListeners() and
\* connect(); listens: 'visibilitychange' in document (line 810)
LiveUserInit(listens, throws) ==
    /\ js.pc = "load"
    /\ js' = connect([js EXCEPT !.pc = "run", !.visibility = listens], throws)
    /\ UNCHANGED <<serverVars, req>>

\* the visibilitychange listener (lines 811-816); document.hidden has changed
visibilitychange(throws) ==
    /\ js.pc = "run"
    /\ js.visibility
    /\ LET j == [js EXCEPT !.hidden = ~@, !.isActive = js.hidden]
       IN js' = IF j.isActive /\ ~isOpen(j) THEN connect(j, throws) ELSE j
    /\ WithinBounds(js')
    /\ UNCHANGED <<serverVars, req>>

\* the beforeunload listener (lines 821-826), on a page that is not unloaded
beforeunload ==
    /\ js.pc = "run"
    /\ js' = IF js.ws # 0
             THEN [js EXCEPT !.isActive = FALSE,
                             !.sockets[js.ws] = closeSocket(@)]
             ELSE [js EXCEPT !.isActive = FALSE]
    /\ UNCHANGED <<serverVars, req>>

\* the online listener (lines 831-834)
online(throws) ==
    /\ js.pc = "run"
    /\ js' = connect(js, throws)
    /\ WithinBounds(js')
    /\ UNCHANGED <<serverVars, req>>

\* the callback of timer t (lines 977-982)
reconnectTimerFires(t, throws) ==
    /\ js.pc = "run"
    /\ t \in 1..Len(js.timers)
    /\ js.timers[t] = "pending"
    /\ LET j == [js EXCEPT !.timers[t] = "fired", !.reconnectTimer = 0]
       IN js' = IF j.isActive THEN connect(j, throws) ELSE j
    /\ WithinBounds(js')
    /\ UNCHANGED <<serverVars, req>>

\* socket i opens; its onopen (lines 856-862) sends the join frame on this.ws,
\* which throws when this.ws is null or still connecting and is dropped when
\* this.ws is closing or closed
onopen(i) ==
    /\ js.pc = "run"
    /\ i \in 1..Len(js.sockets)
    /\ js.sockets[i].readyState = "CONNECTING"
    /\ LET j == [js EXCEPT !.sockets[i].readyState = "OPEN"]
       IN js' = IF isOpen(j) THEN [j EXCEPT !.sockets[j.ws].joins = 1] ELSE j
    /\ UNCHANGED <<serverVars, req>>

\* socket i is closed (the connection failed, the peer or the network closed it,
\* or its close() has completed); its onclose (lines 873-878)
onclose(i) ==
    /\ js.pc = "run"
    /\ i \in 1..Len(js.sockets)
    /\ js.sockets[i].readyState # "CLOSED"
    /\ LET j == [js EXCEPT !.sockets[i].readyState = "CLOSED"]
       IN js' = IF j.isActive THEN scheduleReconnect(j) ELSE j
    /\ WithinBounds(js')
    /\ UNCHANGED <<serverVars, req>>

\* disconnect() (lines 1000-1010)
disconnect ==
    /\ js.pc = "run"
    /\ LET j == clearReconnectTimer([js EXCEPT !.isActive = FALSE,
                                               !.disconnected = TRUE])
       IN js' = IF j.ws # 0
                THEN [j EXCEPT !.sockets[j.ws] = closeSocket(@), !.ws = 0]
                ELSE j
    /\ UNCHANGED <<serverVars, req>>

\* reconnect() (lines 1012-1015)
reconnect(throws) ==
    /\ js.pc = "run"
    /\ js' = connect([js EXCEPT !.isActive = TRUE, !.disconnected = FALSE], throws)
    /\ WithinBounds(js')
    /\ UNCHANGED <<serverVars, req>>

NextJS ==
    \/ \E listens, throws \in BOOLEAN : LiveUserInit(listens, throws)
    \/ \E throws \in BOOLEAN : visibilitychange(throws)
    \/ beforeunload
    \/ \E throws \in BOOLEAN : online(throws)
    \/ \E t \in 1..MaxTimers, throws \in BOOLEAN : reconnectTimerFires(t, throws)
    \/ \E i \in 1..MaxSockets : onopen(i)
    \/ \E i \in 1..MaxSockets : onclose(i)
    \/ disconnect
    \/ \E throws \in BOOLEAN : reconnect(throws)

SpecJS == Init /\ [][NextJS]_vars

\* ---- parseJSConfig ----
\* SpecConfig is one request for /liveuser.js: InitConfig draws the siteId
\* parameter of the query and the Referer header, the action applies
\* parseJSConfig.  A string is the sequence of its characters.

\* the characters of the strings drawn: a letter, a digit, and the characters
\* url.Parse gives a meaning to or rejects in a host
Chars == {"h", "8", ":", "/", " "}

\* the strings of at most n characters
StringsUpTo(n) == UNION {[1..m -> Chars] : m \in 0..n}

\* the literal "default-site" (line 285)
DefaultSite == <<"default-site">>

\* strings.HasPrefix
HasPrefix(str, prefix) ==
    Len(prefix) <= Len(str) /\ SubSeq(str, 1, Len(prefix)) = prefix

\* strings.Index for a one-character substring, 0 when it is absent
Index(str, ch) ==
    IF \E i \in 1..Len(str) : str[i] = ch
    THEN CHOOSE i \in 1..Len(str) :
             str[i] = ch /\ \A m \in 1..(i - 1) : str[m] # ch
    ELSE 0

\* strings.LastIndex for a one-character substring, 0 when it is absent
LastIndex(str, ch) ==
    IF \E i \in 1..Len(str) : str[i] = ch
    THEN CHOOSE i \in 1..Len(str) :
             str[i] = ch /\ \A m \in (i + 1)..Len(str) : str[m] # ch
    ELSE 0

\* net/url getScheme: the index of the colon that ends the scheme, 0 when the
\* string has no scheme, -1 for the error "missing protocol scheme"
RECURSIVE getScheme(_, _)
getScheme(rawURL, i) ==
    IF i > Len(rawURL) THEN 0
    ELSE IF rawURL[i] = "h" THEN getScheme(rawURL, i + 1)
    ELSE IF rawURL[i] = "8" THEN (IF i = 1 THEN 0 ELSE getScheme(rawURL, i + 1))
    ELSE IF rawURL[i] = ":" THEN (IF i = 1 THEN -1 ELSE i)
    ELSE 0

\* net/url validOptionalPort: empty, or a colon followed by digits
validOptionalPort(port) ==
    port = <<>> \/ (port[1] = ":" /\ \A i \in 2..Len(port) : port[i] = "8")

\* net/url parseHost for a host without brackets: the port is checked, a
\* character that is not allowed in a host is an error
parseHost(host) ==
    LET i == LastIndex(host, ":")
    IN IF i # 0 /\ ~validOptionalPort(SubSeq(host, i, Len(host)))
       THEN [err |-> TRUE, Host |-> <<>>]
       ELSE IF \E m \in 1..Len(host) : host[m] = " "
       THEN [err |-> TRUE, Host |-> <<>>]
       ELSE [err |-> FALSE, Host |-> host]

\* url.Parse (line 280) on a string without '#', '?', '@', '%' and '[': the
\* error and the Host of the URL
urlParse(rawURL) ==
    LET e == getScheme(rawURL, 1)
        scheme == IF e <= 0 THEN <<>> ELSE SubSeq(rawURL, 1, e - 1)
        rest == IF e <= 0 THEN rawURL ELSE SubSeq(rawURL, e + 1, Len(rawURL))
        slash == Index(rest, "/")
        segment == IF slash = 0 THEN rest ELSE SubSeq(rest, 1, slash - 1)
        afterSlashes == SubSeq(rest, 3, Len(rest))
        end == Index(afterSlashes, "/")
        authority == IF end = 0 THEN afterSlashes
                     ELSE SubSeq(afterSlashes, 1, end - 1)
    IN IF e = -1 THEN [err |-> TRUE, Host |-> <<>>]
       ELSE IF ~HasPrefix(rest, <<"/">>) /\ scheme # <<>>
       THEN [err |-> FALSE, Host |-> <<>>]
       ELSE IF ~HasPrefix(rest, <<"/">>) /\ Index(segment, ":") # 0
       THEN [err |-> TRUE, Host |-> <<>>]
       ELSE IF (scheme # <<>> \/ ~HasPrefix(rest, <<"/", "/", "/">>))
                 /\ HasPrefix(rest, <<"/", "/">>)
       THEN parseHost(authority)
       ELSE [err |-> FALSE, Host |-> <<>>]

\* getParam that ignores the parameter
getParamDefault(value, defaultValue) == defaultValue

\* getParam (lines 293-298); value is params.Get(key)
getParam(value, defaultValue) == IF value # <<>> THEN value ELSE defaultValue

\* the SiteID of the JSConfig (lines 270, 277-287)
configSiteID(siteId, referer) ==
    LET SiteID == getParam(siteId, <<>>)
        u == urlParse(referer)
        fromReferer == IF referer # <<>> /\ ~u.err THEN u.Host ELSE SiteID
    IN IF SiteID # <<>> THEN SiteID
       ELSE IF fromReferer # <<>> THEN fromReferer
       ELSE DefaultSite

\* a request arrives: handleJS calls parseJSConfig (lines 266-290)
parseJSConfig ==
    /\ req.pc = "request"
    /\ req' = [req EXCEPT !.pc = "done",
                          !.SiteID = configSiteID(req.siteId, req.Referer)]
    /\ UNCHANGED <<serverVars, js>>

\* the requests drawn: the siteId parameter is absent or empty, or has a value;
\* the Referer header is absent or any string of at most MaxRefererLen
\* characters
Requests ==
    {[pc |-> "request", siteId |-> q, Referer |-> r, SiteID |-> <<>>] :
        q \in StringsUpTo(MaxSiteIdLen), r \in StringsUpTo(MaxRefererLen)}

InitConfig ==
    /\ sites = [k \in SiteIDs |-> NilSite]
    /\ heap = <<>>
    /\ cSite = [c \in Clients |-> NilSite]
    /\ send = [c \in Clients |-> <<>>]
    /\ sendClosed = [c \in Clients |-> FALSE]
    /\ connClosed = [c \in Clients |-> FALSE]
    /\ rpc = [c \in Clients |-> "read"]
    /\ rSiteID = [c \in Clients |-> ""]
    /\ wpc = [c \in Clients |-> "run"]
    /\ hub = HubIdle
    /\ frames = 0
    /\ shed = {}
    /\ swFrom = [c \in Clients |-> NilSite]
    /\ hmutex = NoClient
    /\ gsite = [c \in Clients |-> NilSite]
    /\ main = MainWait
    /\ enq = [c \in Clients |-> <<>>]
    /\ deq = [c \in Clients |-> <<>>]
    /\ ignored = [c \in Clients |-> {}]
    /\ notified = [c \in Clients |-> FALSE]
    /\ js = NoPage
    /\ req \in Requests

NextConfig == parseJSConfig

SpecConfig == InitConfig /\ [][NextConfig]_vars

\* ---- properties ----
CountMatches(o) ==
    /\ heap[o].Count = Cardinality(heap[o].Connections)
    /\ heap[o].Count >= 0

MemberOf(c) == {o \in Allocated : c \in heap[o].Connections}

\* a readPump has resolved a site with getSite and its attach is not yet processed
AttachPending == \E c \in Clients : rpc[c] = "register"

\* C2: whenever the hub is idle between commands (and no attach is in flight), a
\* site key is in Hub.sites iff the Site registered under it has at least one member.
C2_RegisteredIffNonEmpty ==
    (hub.pc = "idle" /\ ~AttachPending) =>
        \A k \in Keys :
            sites[k] # NilSite <=>
                (sites[k] \in Allocated /\ heap[sites[k]].Connections # {})

\* C3: a key is deleted from Hub.sites only when the Site object registered under
\* it has no member.
C3_NoDeleteWhileMembers ==
    [][\A k \in Keys :
          (sites[k] # NilSite /\ sites'[k] = NilSite) =>
              heap[sites[k]].Connections = {}]_vars

\* C4: every Client is in the Connections of at most one Site object.
C4_AtMostOneSite == \A c \in Clients : Cardinality(MemberOf(c)) <= 1

\* the update a broadcast pass over Site object o enqueues
UpdateOf(o) == UpdateMessage(heap[o].ID, heap[o].Count)

\* the Hub goroutine takes this step (each of its steps moves its position or
\* shortens todo)
HubStep == hub' # hub

\* the member the range of broadcastToSite visits in this step
Visits(m) ==
    /\ HubStep
    /\ hub.pc = "range"
    /\ m \in hub.todo
    /\ (hub'.pc = "panic" \/ m \notin hub'.todo)

\* C5: a member of site A that joins another site B: the detach takes it out of A
\* and lowers A's Count by one, the attach raises B's Count by one, afterwards it
\* is a member of B and of no other Site, and the hub keeps running.
C5_SwitchMovesMember ==
    [][(HubStep /\ hub.from # NilSite) =>
          LET c == hub.client
              A == hub.from
              B == cSite[c]
          IN /\ hub'.pc # "panic"
             /\ (hub.pc = "handleUnregister" /\ c \in heap[A].Connections) =>
                    /\ c \notin heap'[A].Connections
                    /\ heap'[A].Count = heap[A].Count - 1
             /\ hub.pc = "handleRegister" =>
                    /\ c \in heap'[B].Connections
                    /\ heap'[B].Count = heap[B].Count + 1
             /\ (hub.cmd = "register" /\ hub'.pc = "idle") =>
                    {o \in Allocated : c \in heap'[o].Connections} = {B}]_vars

\* C6: an attach adds the client to its Site, increments Count, and the broadcast
\* enqueues the update with the new Count to every member of that Site that has
\* room, the new member included.
C6_AttachBroadcasts ==
    [][(HubStep /\ hub.cmd = "register") =>
          LET c == hub.client
              S == cSite[c]
          IN /\ (hub.pc = "handleRegister" /\ S # NilSite) =>
                    /\ heap'[S].Connections = heap[S].Connections \cup {c}
                    /\ heap'[S].Count = heap[S].Count + 1
             /\ hub.pc = "broadcast" =>
                    /\ hub'.pc = "range"
                    /\ hub'.todo = heap[hub.site].Connections
             /\ \A m \in Clients :
                    (Visits(m) /\ CanSend(send[m])) =>
                        /\ hub'.pc # "panic"
                        /\ send'[m] = Append(send[m], UpdateOf(hub.site))]_vars

\* C7: a detach of a current member removes it, closes its queue and decrements
\* Count; with no member left the key is removed and nothing is sent, otherwise the
\* update with the new Count is enqueued to every remaining member that has room.
C7_DetachReclaimsOrBroadcasts ==
    [][(HubStep /\ hub.cmd = "unregister") =>
          LET c == hub.client
              S == cSite[c]
          IN /\ (hub.pc = "handleUnregister" /\ S # NilSite
                                             /\ c \in heap[S].Connections) =>
                    /\ hub'.pc # "panic"
                    /\ c \notin heap'[S].Connections
                    /\ sendClosed'[c]
                    /\ heap'[S].Count = heap[S].Count - 1
                    /\ hub'.pc = IF heap'[S].Connections = {}
                                 THEN "reclaim" ELSE "broadcast"
             /\ hub.pc = "reclaim" =>
                    /\ sites'[heap[hub.site].ID] = NilSite
                    /\ send' = send
             /\ hub.pc = "broadcast" =>
                    /\ hub'.pc = "range"
                    /\ hub'.todo = heap[hub.site].Connections
             /\ \A m \in Clients :
                    (Visits(m) /\ CanSend(send[m])) =>
                        /\ hub'.pc # "panic"
                        /\ send'[m] = Append(send[m], UpdateOf(hub.site))]_vars

\* the running pass meets exactly one member with a full queue: found full
\* already, or full now and still to visit
OneFull == Cardinality(hub.full \cup {p \in hub.todo : ~CanSend(send[p])}) = 1

\* C8: in a broadcast pass in which exactly one member has a full queue, that
\* member is removed from Connections and its queue closed in its own iteration
\* and nobody else is; every other member has the update enqueued once and stays.
C8_ShedsExactlyTheFullMember ==
    [][\A m \in Clients :
          (Visits(m) /\ OneFull) =>
              /\ hub'.pc # "panic"
              /\ hub'.todo = hub.todo \ {m}
              /\ \A p \in Clients \ {m} :
                     /\ send'[p] = send[p]
                     /\ sendClosed'[p] = sendClosed[p]
                     /\ p \in heap[hub.bsite].Connections
                            <=> p \in heap'[hub.bsite].Connections
              /\ IF CanSend(send[m])
                 THEN /\ send'[m] = Append(send[m], UpdateMessage(hub.siteID, hub.count))
                      /\ m \in heap'[hub.bsite].Connections
                      /\ ~sendClosed'[m]
                 ELSE /\ m \notin heap'[hub.bsite].Connections
                      /\ sendClosed'[m]
                      /\ send'[m] = send[m]]_vars

\* a broadcast pass over Site object o ends in this step
PassEnds(o) == hub.pc = "range" /\ hub.bsite = o /\ hub'.pc = "idle"

\* C9: when a broadcast pass that has shed a member ends, the Count of the Site
\* equals the number of members left in Connections.
C9_CountReflectsShed ==
    [][\A o \in Allocated :
          (PassEnds(o) /\ \E c \in Clients : <<c, o>> \in shed' \ shed) =>
              heap'[o].Count = Cardinality(heap'[o].Connections)]_vars

\* C10: when a broadcast pass leaves the Site without members, its key is no
\* longer in Hub.sites when the hub has finished the command.
C10_ShedEmptyIsReclaimed ==
    [][\A o \in Allocated :
          (PassEnds(o) /\ heap'[o].Connections = {}) =>
              sites'[heap[o].ID] = NilSite]_vars

\* C11: a detach for a client that has no site, or that is not in the Connections
\* of its site (already detached or shed), changes nothing: no Site object, no
\* registry entry, no queue and no closed flag changes, and the hub is idle again.
C11_DetachOfNonMemberIsNoOp ==
    [][(HubStep /\ hub.pc = "handleUnregister"
                /\ (cSite[hub.client] = NilSite
                      \/ hub.client \notin heap[cSite[hub.client]].Connections)) =>
          /\ heap' = heap
          /\ sites' = sites
          /\ send' = send
          /\ sendClosed' = sendClosed
          /\ hub' = HubIdle]_vars

\* the final detach of a client that a broadcast pass had shed from its site has
\* been handled
C11_Witness ==
    /\ hub.pc = "idle"
    /\ \E c \in Clients :
           /\ rpc[c] = "close"
           /\ cSite[c] # NilSite
           /\ <<c, cSite[c]>> \in shed
           /\ c \notin heap[cSite[c]].Connections
           /\ heap[cSite[c]].Connections # {}

\* the Site objects created for site ID k
CreatedFor(k) == {o \in Allocated : heap[o].ID = k}

\* C12: getSite always returns a Site (never nil), and readers that call getSite
\* at the same time for a key that is not registered all get the same Site
\* object: one Site is created for the key, and it is the registered one.
C12_GetSiteConverges ==
    /\ \A k \in Keys : Cardinality(CreatedFor(k)) <= 1
    /\ \A c \in Clients :
           rpc[c] = "register" =>
               /\ cSite[c] \in Allocated
               /\ heap[cSite[c]].ID = rSiteID[c]
               /\ sites[rSiteID[c]] = cSite[c]
    /\ \A c, d \in Clients :
           (rpc[c] = "register" /\ rpc[d] = "register"
                /\ rSiteID[c] = rSiteID[d]) => cSite[c] = cSite[d]

\* two readers called getSite for the same unregistered key while a third held
\* Hub.mutex, and both have returned
C12_Witness ==
    \E c, d \in Clients :
        /\ c # d
        /\ rpc[c] = "register" /\ rpc[d] = "register"
        /\ rSiteID[c] = rSiteID[d]
        /\ cSite[c] = cSite[d]
        /\ cSite[c] # NilSite
        /\ \E e \in Clients \ {c, d} : rpc[e] \in {"lookup", "create", "Unlock"}

\* the main goroutine takes this step
MainStep == main' # main

\* the shutdown pass runs its iteration for client c in this step
ShutdownVisits(c) == main'.visits[c] = main.visits[c] + 1

\* C13: the shutdown pass never panics and never waits; it runs at most one
\* iteration per client, which enqueues one shutdown message if the queue has
\* room and none if it is full, and closes the connection; when the pass is over,
\* the connection of every client that was a member of a site when the pass
\* began, and still is one, has been closed.
C13_ShutdownPass ==
    [][MainStep =>
          /\ main'.pc # "panic"
          /\ \A c \in Clients :
                 /\ main'.visits[c] <= 1
                 /\ ShutdownVisits(c) =>
                        /\ send'[c] = IF CanSend(send[c])
                                      THEN Append(send[c], ShutdownMessage)
                                      ELSE send[c]
                        /\ connClosed'[c]
          /\ main'.pc = "done" =>
                 \A c \in main'.members :
                     MemberOf(c) # {} => connClosed'[c]]_vars

\* the readPump of c is blocked on a send to the register or unregister channel
Submitted(c) == rpc[c] \in {"register", "unregister", "final"}

\* C14: the hub never waits for a queue: every command a readPump submits is
\* received, the hub completes every command it has received (it is idle again),
\* and a broadcast pass enqueues the update to every member with room, whatever
\* the queues of the other members.
C14_HubNeverBlocks ==
    /\ \A c \in Clients : Submitted(c) ~> ~Submitted(c)
    /\ (hub.pc # "idle") ~> (hub.pc = "idle")
    /\ [][\A m \in Clients :
             (Visits(m) /\ CanSend(send[m])) =>
                 send'[m] = Append(send[m], UpdateMessage(hub.siteID, hub.count))]_vars

\* every client that ever joined a site is gone: its final detach has been
\* handled and its connection closed
AllViewersGone == \A c \in Clients : cSite[c] = NilSite \/ rpc[c] = "done"

\* C15: when every client that ever joined a site is gone and the hub is idle,
\* Hub.sites has no entry left.
C15_NoSiteSurvives ==
    (hub.pc = "idle" /\ AllViewersGone) => \A k \in Keys : sites[k] = NilSite

\* the hub enqueues a message on the queue of m in this step
Enqueues(m) == HubStep /\ send'[m] # send[m]

\* C16: every update the hub enqueues on the queue of a member of a Site carries
\* the ID of that Site and the Count the Site has after the command that caused
\* the broadcast, and goes to the tail of the queue, behind the updates of the
\* commands handled before.
C16_UpdateCarriesSiteCount ==
    [][\A m \in Clients :
          Enqueues(m) =>
              /\ m \in heap[hub.bsite].Connections
              /\ send'[m] = Append(send[m], UpdateOf(hub.bsite))]_vars

\* s is a prefix of t
IsPrefix(s, t) == Len(s) <= Len(t) /\ s = SubSeq(t, 1, Len(s))

\* C17: writePump receives the messages of Client.send in the order in which they
\* were sent: what it has received is always the beginning of what has been sent,
\* the rest is in the buffer in that order, and when it has observed the close of
\* the channel it has received every message sent before the close.
C17_WriterFIFO ==
    \A c \in Clients :
        /\ IsPrefix(deq[c], enq[c])
        /\ enq[c] = deq[c] \o send[c]
        /\ (wpc[c] = "done" /\ sendClosed[c]) => deq[c] = enq[c]

\* a writePump has received a message, and two different messages sent before
\* the close of the channel are still in its buffer
C17_Witness ==
    \E c \in Clients :
        /\ wpc[c] = "run"
        /\ sendClosed[c]
        /\ Len(deq[c]) >= 1
        /\ Len(send[c]) = 2
        /\ send[c][1] # send[c][2]

\* C18: broadcastToSite for a site ID that has no entry in Hub.sites enqueues
\* nothing and changes no Site object, no registry entry and no queue; the call
\* returns without a range.
C18_BroadcastToAbsentSite ==
    [][(HubStep /\ hub.pc = "broadcast" /\ sites[hub.siteID] = NilSite) =>
          /\ send' = send
          /\ enq' = enq
          /\ sendClosed' = sendClosed
          /\ heap' = heap
          /\ sites' = sites
          /\ hub' = HubIdle]_vars

\* a client has been attached to a Site whose ID has no entry in Hub.sites, the
\* broadcast of its attach is over and nothing has ever been sent to it
C18_Witness ==
    /\ hub.pc = "idle"
    /\ \E c \in Clients :
           /\ cSite[c] # NilSite
           /\ c \in heap[cSite[c]].Connections
           /\ sites[heap[cSite[c]].ID] = NilSite
           /\ enq[c] = <<>>

\* C19: in a site switch the hub applies the detach to the Site the client held
\* when its readPump sent it on unregister, and the client is out of that Site
\* when the detach is done and when the attach to the new Site is handled.
C19_SwitchDetachesOldSite ==
    [][(HubStep /\ hub.from # NilSite) =>
          /\ hub.pc = "handleUnregister" =>
                 /\ cSite[hub.client] = hub.from
                 /\ hub.client \notin heap'[hub.from].Connections
          /\ hub.pc = "handleRegister" =>
                 hub.client \notin heap[hub.from].Connections]_vars

\* the clients whose Client.site is Site object o
Holders(o) == {c \in Clients : cSite[c] = o}

\* C20: a client that names the same site in all its join frames is attached to
\* it at most once: it is in the Connections of no other Site, the Count of a
\* Site never exceeds the number of clients that joined it, and the hub never
\* attaches a client that is a member already.
C20_JoinSameSiteOnce ==
    /\ \A c \in Clients : MemberOf(c) \subseteq {cSite[c]}
    /\ \A o \in Allocated : heap[o].Count <= Cardinality(Holders(o))
    /\ hub.pc = "handleRegister" => MemberOf(hub.client) = {}

\* one client has sent two join frames for its site, the second before the attach
\* of the first was over; it has been attached and the Count of the Site is 1
C20_Witness ==
    /\ frames >= 2
    /\ hub.pc = "broadcast"
    /\ hub.cmd = "register"
    /\ \A d \in Clients \ {hub.client} : cSite[d] = NilSite
    /\ MemberOf(hub.client) = {cSite[hub.client]}
    /\ heap[cSite[hub.client]].Count = 1

\* the hub has handled the final detach of c: it has received c from the deferred
\* function of readPump (line 350) and the handleUnregister call has returned
FinalDetachDone(c) ==
    /\ rpc[c] \in {"close", "done"}
    /\ ~(hub.pc # "idle" /\ hub.client = c)

\* C21: once the readPump of a client has ended its loop and the hub has handled
\* the final detach, the client is in the Connections of no Site, and its
\* connection is closed when readPump has returned, whatever joins and site
\* switches came before.
C21_ExitLeavesNoMembership ==
    \A c \in Clients :
        FinalDetachDone(c) =>
            /\ MemberOf(c) = {}
            /\ rpc[c] = "done" => connClosed[c]

\* the Site object an attach or detach names: Client.site of the client received,
\* as the handler reads it, and the Site whose key the detach goes on to delete
Named == IF hub.pc = "reclaim" THEN hub.site ELSE cSite[hub.client]

\* Site object o is the one registered under its key
Registered(o) == sites[heap[o].ID] = o

\* C22: the steps of handleRegister and handleUnregister that write (lines 117-122,
\* 136-146, 150-153) change the Count and the Connections of the named Site only,
\* and leave every other Site that is registered under its key registered.
C22_CommandTouchesOneSite ==
    [][(HubStep /\ hub.pc \in {"handleRegister", "handleUnregister", "reclaim"}) =>
          \A o \in Allocated \ {Named} :
              /\ heap'[o] = heap[o]
              /\ Registered(o) => sites'[heap[o].ID] = o]_vars

\* what the reader is to discard: not valid JSON, a type that is not join, or an
\* empty siteId
Malformed(f) == ~f.json \/ f.Type # "join" \/ f.SiteID = <<>>

\* C23: a frame that is not valid JSON, whose type is not join or whose siteId is
\* empty changes neither Client.site nor any Site nor Hub.sites, no command is
\* submitted to the hub, and readPump goes on to read the next frame with the
\* connection open as before.
C23_MalformedFrameIgnored ==
    [][\A c \in Clients, f \in Frames :
          (Malformed(f) /\ ReadFrame(c, f)) =>
              /\ cSite' = cSite
              /\ heap' = heap
              /\ sites' = sites
              /\ rpc'[c] = "read"
              /\ connClosed' = connClosed
              /\ UNCHANGED <<send, sendClosed, hub, wpc>>]_vars

\* a member of a registered site has discarded a frame and is still a member of
\* it, with the connection open and the reader reading
C23_Witness ==
    \E c \in Clients :
        /\ cSite[c] # NilSite
        /\ [site |-> cSite[c], member |-> TRUE] \in ignored[c]
        /\ c \in heap[cSite[c]].Connections
        /\ Registered(cSite[c])
        /\ heap[cSite[c]].Count = 1
        /\ rpc[c] = "read"
        /\ ~connClosed[c]

\* C24: no Site with the empty string as its ID is ever created, and Hub.sites
\* never has an entry for the empty string, whatever siteId the join frames carry.
C24_NoEmptyKey ==
    /\ sites[""] = NilSite
    /\ \A o \in Allocated : heap[o].ID # ""

\* writePump of c has ended the way it ends on a closed queue: every message sent
\* on Client.send received, the close message written, the connection closed
WriterClosedDown(c) ==
    /\ wpc[c] = "done"
    /\ deq[c] = enq[c]
    /\ notified[c]
    /\ connClosed[c]

\* C25: whenever Client.send has been closed, by handleUnregister or by the
\* default branch of broadcastToSite, writePump eventually receives the messages
\* still in the buffer, writes the close message, returns and closes the
\* connection.
C25_ClosedQueueEndsWriter ==
    \A c \in Clients : sendClosed[c] ~> WriterClosedDown(c)

\* C25 with the end of the process allowed for, and without the messages and the
\* close message that a connection closed by readPump no longer takes
WriterEndsUnlessPanic ==
    \A c \in Clients :
        sendClosed[c] ~> ((wpc[c] = "done" /\ connClosed[c]) \/ ~Running)

\* an error has ended the read loop or writePump of c
Failed(c) == rpc[c] \in {"final", "close", "done"} \/ wpc[c] = "done"

\* both goroutines of c have returned
Closed(c) == rpc[c] = "done" /\ wpc[c] = "done"

\* a step of the goroutines of c, or of the hub on behalf of c, that ends its
\* read loop, its readPump or its writePump
TearsDown(c) ==
    \/ rpc'[c] # rpc[c] /\ rpc'[c] \in {"final", "close", "done"}
    \/ wpc'[c] # wpc[c]

\* C26: whenever the read loop or writePump of a client has ended on an error,
\* eventually both its goroutines have returned, also when the client never joined
\* a site; the step that ends them leaves the goroutines, the connection and the
\* queue of every other client as they are, and the process running.
C26_ErrorEndsBothTasks ==
    /\ \A c \in Clients : Failed(c) ~> Closed(c)
    /\ [][\A c \in Clients :
             TearsDown(c) =>
                 \A d \in Clients \ {c} :
                     /\ rpc'[d] = rpc[d]
                     /\ wpc'[d] = wpc[d]
                     /\ connClosed'[d] = connClosed[d]
                     /\ sendClosed'[d] = sendClosed[d]]_vars

\* the liveness half of C26 with the end of the process allowed for
TasksEndUnlessPanic == \A c \in Clients : Failed(c) ~> (Closed(c) \/ ~Running)

\* C27: the hub never sends on a Client.send that has been closed and never closes
\* one twice: the range of broadcastToSite visits no member whose queue is closed
\* (not after a site switch either, whose detach has closed the queue), and
\* handleUnregister detaches no member whose queue is closed.
C27_NoUseOfClosedQueue ==
    [][HubStep =>
          /\ \A m \in Clients : Visits(m) => ~sendClosed[m]
          /\ (hub.pc = "handleUnregister" /\ cSite[hub.client] # NilSite
                /\ hub.client \in heap[cSite[hub.client]].Connections) =>
                 ~sendClosed[hub.client]]_vars

\* the select of the shutdown pass (lines 460-461) runs on a closed channel
ShutdownSendsOnClosed == main.pc = "range" /\ main'.pc = "panic"

\* C28: no iteration of the shutdown pass sends its message on a Client.send that
\* the hub has closed, in handleUnregister or in the default branch of
\* broadcastToSite, before or while the pass runs.
C28_ShutdownNeverSendsOnClosed == [][~ShutdownSendsOnClosed]_vars

\* C29: every Site object that has a member is the object registered in Hub.sites
\* under its ID, so that no two Site objects with the same ID have members.
C29_MembersOnlyInRegisteredSite ==
    /\ \A o \in Allocated : heap[o].Connections # {} => Registered(o)
    /\ \A o, q \in Allocated :
           (o # q /\ heap[o].ID = heap[q].ID) =>
               (heap[o].Connections = {} \/ heap[q].Connections = {})

\* C30: every Site object has Count >= |Connections| >= 0 in every state, and the
\* decrement of handleUnregister (line 140) never yields a negative Count: the
\* branch of line 141 is never taken.
C30_CountAtLeastMembers ==
    /\ \A o \in Allocated :
           /\ heap[o].Count >= Cardinality(heap[o].Connections)
           /\ Cardinality(heap[o].Connections) >= 0
    /\ (hub.pc = "handleUnregister" /\ cSite[hub.client] # NilSite
          /\ hub.client \in heap[cSite[hub.client]].Connections) =>
           heap[cSite[hub.client]].Count - 1 >= 0

\* a Site with two members has lost one by a detach (Count 2 to 1) and has shed
\* the other: its Count is 1 and it has no member, and the hub is about to handle
\* the detach of the shed client
C30_Witness ==
    /\ hub.pc = "handleUnregister"
    /\ cSite[hub.client] # NilSite
    /\ <<hub.client, cSite[hub.client]>> \in shed
    /\ heap[cSite[hub.client]].Count = 1
    /\ heap[cSite[hub.client]].Connections = {}
    /\ \E d \in Clients \ {hub.client} :
           /\ cSite[d] = cSite[hub.client]
           /\ <<d, cSite[d]>> \notin shed
           /\ sendClosed[d]
           /\ rpc[d] = "done"

\* C31: every update the hub has ever sent on a Client.send carries a Count of at
\* least 1: no update with Count 0 is enqueued on any queue.
C31_UpdateCountPositive ==
    \A c \in Clients :
        \A i \in 1..Len(enq[c]) :
            enq[c][i].Type = "update" => enq[c][i].Count >= 1

\* a member of a site of two has been sent the update of the other member's
\* detach: Count 1, behind the update with Count 2
C31_Witness ==
    /\ hub.cmd = "unregister"
    /\ \E c \in Clients \ {hub.client} :
           /\ Len(enq[c]) >= 2
           /\ enq[c][Len(enq[c])] = UpdateMessage(hub.siteID, 1)
           /\ enq[c][Len(enq[c]) - 1] = UpdateMessage(hub.siteID, 2)

\* an entry is removed from the Connections of Site object o in this step
Removes(o) == heap'[o].Connections # heap[o].Connections
                  /\ heap'[o].Connections \subseteq heap[o].Connections

\* C32: whoever removes an entry from the Connections of a Site holds the write
\* lock of that Site: the remover does not hold the read lock only, and no other
\* goroutine (the shutdown pass of main) holds the read lock of the Site then.
C32_RemovalUnderWriteLock ==
    [][\A o \in Allocated :
          Removes(o) =>
              /\ HubSiteLocked(o)
              /\ ~HubSiteRLocked(o)
              /\ ~SiteMutexRLocked(o)]_vars

\* ---- C33 ----
\* readPump of c is blocked: on h.mutex.Lock() in getSite, or on a send on
\* h.register or h.unregister
ReaderBlocked(c) == rpc[c] \in {"Lock", "register", "unregister", "final"}

\* the Hub goroutine is inside a handler: before a site.mutex.Lock(), an
\* h.mutex.Lock(), an h.mutex.RLock(), or in the range of a broadcast
HubBusy == hub.pc \in {"handleRegister", "handleUnregister", "reclaim",
                       "broadcast", "range"}

\* main is before h.mutex.RLock() or inside the shutdown pass
MainBusy == main.pc \in {"RLock", "sites", "range"}

\* C33: no goroutine waits forever for the registry lock, a site lock or a hub
\* channel while the process runs: a blocked readPump goes on, the hub returns
\* to its select, and main ends its pass.
C33_NoTaskWaitsForever ==
    /\ \A c \in LockClients : ReaderBlocked(c) ~> (~ReaderBlocked(c) \/ ~Running)
    /\ HubBusy ~> (hub.pc = "idle" \/ ~Running)
    /\ MainBusy ~> ~Running

\* main holds the registry read lock and the read lock of a Site, the hub waits
\* for the write lock of that Site, and a readPump waits in getSite for the
\* registry lock
C33_Witness ==
    /\ main.pc = "range"
    /\ hub.pc \in {"handleRegister", "handleUnregister"}
    /\ cSite[hub.client] = main.site
    /\ \E c \in LockClients : rpc[c] = "Lock"

\* ---- C34 ----
\* the WebSocket objects of the page that are connecting or open
Live == {i \in 1..Len(js.sockets) :
            js.sockets[i].readyState \in {"CONNECTING", "OPEN"}}

\* C34: the page has at most one WebSocket that is connecting or open at any
\* time.
C34_AtMostOneLiveSocket == Cardinality(Live) <= 1

\* the second half of C34's sentence: no two sockets of the page have sent a
\* join frame and are open
NoDoubleJoin ==
    Cardinality({i \in Live : js.sockets[i].joins > 0}) <= 1

\* ---- C35 ----
\* C35: from a call of disconnect() to the next call of reconnect() no step
\* creates a WebSocket, and at most one timer is pending at any time.
C35_NoConnectAfterDisconnect ==
    [][/\ (js.disconnected /\ js'.disconnected)
             => Len(js'.sockets) = Len(js.sockets)
       /\ Cardinality({t \in 1..Len(js'.timers) : js'.timers[t] = "pending"}) <= 1
      ]_vars

\* the second half of C35's sentence alone
AtMostOneTimerPending ==
    Cardinality({t \in 1..Len(js.timers) : js.timers[t] = "pending"}) <= 1

\* ---- C36 ----
\* C36: the SiteID parseJSConfig returns is not empty, and it is the siteId
\* parameter when that is not empty, else the host of the Referer when the
\* Referer parses to a host that is not empty, else "default-site".
C36_SiteIDPrecedence ==
    req.pc = "done" =>
        /\ req.SiteID # <<>>
        /\ req.siteId # <<>> => req.SiteID = req.siteId
        /\ (req.siteId = <<>> /\ req.Referer # <<>>
              /\ ~urlParse(req.Referer).err
              /\ urlParse(req.Referer).Host # <<>>)
             => req.SiteID = urlParse(req.Referer).Host
        /\ (req.siteId = <<>>
              /\ (\/ req.Referer = <<>>
                  \/ urlParse(req.Referer).err
                  \/ urlParse(req.Referer).Host = <<>>))
             => req.SiteID = DefaultSite

\* parseJSConfig has taken the site ID from the host of a Referer with a scheme,
\* for a request without a siteId parameter
C36_Witness ==
    /\ req.pc = "done"
    /\ req.siteId = <<>>
    /\ getScheme(req.Referer, 1) > 0
    /\ req.SiteID = <<"h">>

====
